---- MODULE Spec2Model ----
(***************************************************************************)
(* create-icons.py: the placeholder icon generator of the SmartShelf       *)
(* extension.  The script imports the imaging library, calls create_icon   *)
(* for the sizes 16, 32, 48 and 128 in turn, and reports on stdout.  The   *)
(* whole body sits in one try block with two handlers, except ImportError  *)
(* and except Exception.                                                   *)
(*                                                                         *)
(* The model follows the script statement by statement.  The library and   *)
(* the filesystem are the environment: each library or filesystem call     *)
(* either returns or raises, and the bounding box the library reports for  *)
(* the label under the default font is fixed for the lifetime of a model   *)
(* behaviour.  print is taken not to raise.                                *)
(***************************************************************************)
EXTENDS Integers, Sequences, FiniteSets

VARIABLES
    pc,          \* position of the script
    run,         \* number of the current invocation of the script
    idx,         \* number of create_icon calls begun in this invocation
    size,        \* create_icon: parameter size
    filename,    \* create_icon: parameter filename
    img,         \* create_icon: local img
    font_size,   \* create_icon: local font_size
    font,        \* create_icon: local font
    text_width,  \* create_icon: local text_width
    text_height, \* create_icon: local text_height
    x,           \* create_icon: local x
    y,           \* create_icon: local y
    drawnAt,     \* position handed to draw.text by the current call
    exc,         \* the exception propagating to, or handled at, the top level
    dirExists,   \* filesystem: extension/icons is a directory
    files,       \* filesystem: content of extension/icons
    out,         \* stdout of this invocation
    fsLog,       \* filesystem changes made by this invocation, in order
    glyphBox,    \* environment: textbbox of the label under the default font
    fontFailed,  \* history: ImageFont.load_default raised in the current call
    prevFiles,   \* history: files when the previous invocation ended
    prevOk       \* history: the previous invocation ended without exception

vars == <<pc, run, idx, size, filename, img, font_size, font, text_width,
          text_height, x, y, drawnAt, exc, dirExists, files, out, fsLog,
          glyphBox, fontFailed, prevFiles, prevOk>>

locals == <<img, font_size, font, text_width, text_height, x, y, drawnAt>>

-----------------------------------------------------------------------------
(* Bounds *)

MaxRuns == 2    \* invocations of the script in a row
MaxBox  == 8    \* largest coordinate of the reported bounding box
MaxSize == 6    \* create_icon called on its own: sizes 1..MaxSize as well

-----------------------------------------------------------------------------
(* Values *)

FileNames == {"icon16.png", "icon32.png", "icon48.png", "icon128.png"}

ExcTypes == {"ImportError", "Exception"}

NoExc == [type |-> "none", msg |-> "", origin |-> "none"]

NoImg == [mode |-> "none", width |-> 0, height |-> 0]

\* load_default() is called without a size argument
NoSizeArg == 0

NoFont == [present |-> FALSE, requested |-> NoSizeArg]

NoPos == <<"none", 0, 0>>

\* <<left, top, right, bottom>> as draw.textbbox returns it
Boxes == {<<l, t, r, b>> : l \in 0..1, t \in 0..1, r \in 1..MaxBox, b \in 1..MaxBox}

Line(kind, name, n, msg) == <<kind, name, n, msg>>

-----------------------------------------------------------------------------
(* Pure parts of the script *)

\* the four calls of the driver, in program order
CallsMismatched ==
    << <<32, "icon16.png">>, <<16, "icon32.png">>,
       <<48, "icon48.png">>, <<128, "icon128.png">> >>

CallsReordered ==
    << <<16, "icon16.png">>, <<48, "icon48.png">>,
       <<32, "icon32.png">>, <<128, "icon128.png">> >>

Calls ==
    << <<16, "icon16.png">>, <<32, "icon32.png">>,
       <<48, "icon48.png">>, <<128, "icon128.png">> >>

\* Image.new('RGB', (size, size), '#4285f4')
NewImage(s) == [mode |-> "RGB", width |-> s, height |-> s]

\* int(size * 0.6).  0.6 is a double slightly below 3/5; for a size that is
\* a multiple of 5 the product rounds to the integer 3*size/5 (the relative
\* error 3.7e-17 is below half an ulp), and for any other size the fraction
\* of the product is at least 0.2 away from an integer, so truncating the
\* double gives floor(6*size/10) for every size the model draws.
FontSizeRounded(s) == (s * 6 + 5) \div 10

FontSize(s) == (s * 6) \div 10

\* ImageFont.load_default(): no size is passed
LoadDefault == [present |-> TRUE, requested |-> NoSizeArg]

\* the bare "except:" around load_default catches every exception
FontLoadCaughtOSErrorOnly(e) == e.type # "ImportError"

FontLoadCaught(e) == TRUE

\* "if font:" ... "else:" (lines 27-34): the extents used for centering
TextExtent(f, fs, box) ==
    IF f.present
    THEN <<box[3] - box[1], box[4] - box[2]>>
    ELSE <<fs \div 2, fs>>

\* (size - extent) // 2: Python's floor division
CenterTruncated(s, extent) ==
    IF s >= extent THEN (s - extent) \div 2 ELSE 0 - ((extent - s) \div 2)

Center(s, extent) == (s - extent) \div 2

\* os.makedirs('extension/icons', exist_ok=True)
ExistOkFalse == FALSE

ExistOk == TRUE

\* img.save(f'extension/icons/{filename}')
SaveImage(fs, name, image) == [fs EXCEPT ![name] = image]

\* which except clause of the top-level try receives e
HandlerForGenericFirst(e) == "Exception"

HandlerFor(e) == IF e.type = "ImportError" THEN "ImportError" ELSE "Exception"

\* lines 44, 52-54, 57-63, 66-67: what is printed
SuccessLine(name, s) == <<Line("created", name, s, "")>>

BannerLines ==
    << Line("all_created", "", 0, ""), Line("reenable", "", 0, ""),
       Line("uncomment", "", 0, "") >>

MissingLines ==
    << Line("pil_not_found", "", 0, ""), Line("pip_install", "", 0, ""),
       Line("alternatively", "", 0, ""), Line("step", "", 1, ""),
       Line("step", "", 2, ""), Line("step", "", 3, ""), Line("step", "", 4, "") >>

ErrorLinesNoDetail(e) ==
    << Line("error", "", 0, ""), Line("manual_hint", "", 0, "") >>

ErrorLines(e) ==
    << Line("error", "", 0, e.msg), Line("manual_hint", "", 0, "") >>

-----------------------------------------------------------------------------
(* The script *)

Raise(t, where) ==
    /\ exc' = [type |-> t, msg |-> where, origin |-> where]
    /\ pc' = "raised"

ResetLocals ==
    /\ img' = NoImg
    /\ font_size' = 0
    /\ font' = NoFont
    /\ text_width' = 0
    /\ text_height' = 0
    /\ x' = 0
    /\ y' = 0
    /\ drawnAt' = NoPos

Init ==
    /\ pc = "import"
    /\ run = 1
    /\ idx = 0
    /\ size = 0
    /\ filename = ""
    /\ img = NoImg
    /\ font_size = 0
    /\ font = NoFont
    /\ text_width = 0
    /\ text_height = 0
    /\ x = 0
    /\ y = 0
    /\ drawnAt = NoPos
    /\ exc = NoExc
    /\ dirExists \in BOOLEAN
    /\ files = [n \in FileNames |-> NoImg]
    /\ out = <<>>
    /\ fsLog = <<>>
    /\ glyphBox \in Boxes
    /\ fontFailed = FALSE
    /\ prevFiles = [n \in FileNames |-> NoImg]
    /\ prevOk = FALSE

\* lines 7-8: from PIL import ...; import os
Import ==
    /\ pc = "import"
    /\ \/ pc' = "call" /\ exc' = exc
       \/ \E t \in ExcTypes : Raise(t, "import")
    /\ UNCHANGED <<run, idx, size, filename, locals, dirExists, files, out,
                   fsLog, glyphBox, fontFailed, prevFiles, prevOk>>

\* lines 47-50: the next create_icon(size, filename) call
Call ==
    /\ pc = "call"
    /\ idx < Len(Calls)
    /\ idx' = idx + 1
    /\ size' = Calls[idx + 1][1]
    /\ filename' = Calls[idx + 1][2]
    /\ fontFailed' = FALSE
    /\ pc' = "new_image"
    /\ UNCHANGED <<run, locals, exc, dirExists, files, out, fsLog, glyphBox,
                   prevFiles, prevOk>>

\* lines 13-17: img, draw, font_size
CreateImage ==
    /\ pc = "new_image"
    /\ \/ /\ img' = NewImage(size)
          /\ font_size' = FontSize(size)
          /\ pc' = "load_font"
          /\ exc' = exc
       \/ /\ \E t \in ExcTypes : Raise(t, "Image.new")
          /\ UNCHANGED <<img, font_size>>
    /\ UNCHANGED <<run, idx, size, filename, font, text_width, text_height,
                   x, y, drawnAt, dirExists, files, out, fsLog, glyphBox,
                   fontFailed, prevFiles, prevOk>>

\* lines 19-23: try: font = ImageFont.load_default() except: font = None
LoadFont ==
    /\ pc = "load_font"
    /\ \/ /\ font' = LoadDefault
          /\ pc' = "measure"
          /\ UNCHANGED <<exc, fontFailed>>
       \/ \E t \in ExcTypes :
            LET e == [type |-> t, msg |-> "load_default", origin |-> "load_default"]
            IN  IF FontLoadCaught(e)
                THEN /\ font' = NoFont
                     /\ fontFailed' = TRUE
                     /\ pc' = "measure"
                     /\ exc' = exc
                ELSE /\ Raise(t, "load_default")
                     /\ fontFailed' = TRUE
                     /\ font' = font
    /\ UNCHANGED <<run, idx, size, filename, img, font_size, text_width,
                   text_height, x, y, drawnAt, dirExists, files, out, fsLog,
                   glyphBox, prevFiles, prevOk>>

\* lines 26-37: measure or estimate the label, compute x and y
Measure ==
    /\ pc = "measure"
    /\ \/ LET ext == TextExtent(font, font_size, glyphBox)
          IN  /\ text_width' = ext[1]
              /\ text_height' = ext[2]
              /\ x' = Center(size, ext[1])
              /\ y' = Center(size, ext[2])
              /\ pc' = "draw_text"
              /\ exc' = exc
       \/ /\ font.present
          /\ \E t \in ExcTypes : Raise(t, "textbbox")
          /\ UNCHANGED <<text_width, text_height, x, y>>
    /\ UNCHANGED <<run, idx, size, filename, img, font_size, font, drawnAt,
                   dirExists, files, out, fsLog, glyphBox, fontFailed,
                   prevFiles, prevOk>>

\* line 39: draw.text((x, y), text, fill='white', font=font)
DrawText ==
    /\ pc = "draw_text"
    /\ \/ /\ drawnAt' = <<"at", x, y>>
          /\ pc' = "makedirs"
          /\ exc' = exc
       \/ /\ \E t \in ExcTypes : Raise(t, "draw.text")
          /\ UNCHANGED drawnAt
    /\ UNCHANGED <<run, idx, size, filename, img, font_size, font, text_width,
                   text_height, x, y, dirExists, files, out, fsLog, glyphBox,
                   fontFailed, prevFiles, prevOk>>

\* line 42: os.makedirs('extension/icons', exist_ok=True)
MakeDirs ==
    /\ pc = "makedirs"
    /\ IF dirExists /\ ~ExistOk
       THEN /\ Raise("Exception", "FileExistsError")
            /\ UNCHANGED <<dirExists, fsLog>>
       ELSE \/ /\ dirExists' = TRUE
               /\ fsLog' = IF dirExists THEN fsLog
                           ELSE Append(fsLog, <<"makedirs", "extension/icons">>)
               /\ pc' = "save"
               /\ exc' = exc
            \/ /\ \E t \in ExcTypes : Raise(t, "os.makedirs")
               /\ UNCHANGED <<dirExists, fsLog>>
    /\ UNCHANGED <<run, idx, size, filename, locals, files, out, glyphBox,
                   fontFailed, prevFiles, prevOk>>

\* line 43: img.save(f'extension/icons/{filename}')
Save ==
    /\ pc = "save"
    /\ \/ /\ files' = SaveImage(files, filename, img)
          /\ fsLog' = Append(fsLog, <<"save", filename>>)
          /\ pc' = "print"
          /\ exc' = exc
       \/ /\ \E t \in ExcTypes : Raise(t, "img.save")
          /\ UNCHANGED <<files, fsLog>>
    /\ UNCHANGED <<run, idx, size, filename, locals, dirExists, out, glyphBox,
                   fontFailed, prevFiles, prevOk>>

\* line 44: print the success line; create_icon returns
Report ==
    /\ pc = "print"
    /\ out' = out \o SuccessLine(filename, size)
    /\ pc' = "call"
    /\ ResetLocals
    /\ UNCHANGED <<run, idx, size, filename, exc, dirExists, files, fsLog,
                   glyphBox, fontFailed, prevFiles, prevOk>>

\* lines 52-54: after the fourth call
Banner ==
    /\ pc = "call"
    /\ idx = Len(Calls)
    /\ out' = out \o BannerLines
    /\ pc' = "done"
    /\ UNCHANGED <<run, idx, size, filename, locals, exc, dirExists, files,
                   fsLog, glyphBox, fontFailed, prevFiles, prevOk>>

\* lines 56-67: except ImportError / except Exception as e
Handle ==
    /\ pc = "raised"
    /\ out' = out \o (IF HandlerFor(exc) = "ImportError"
                      THEN MissingLines ELSE ErrorLines(exc))
    /\ pc' = "done"
    /\ UNCHANGED <<run, idx, size, filename, locals, exc, dirExists, files,
                   fsLog, glyphBox, fontFailed, prevFiles, prevOk>>

\* the script is started again; the filesystem is what the last run left
Rerun ==
    /\ pc = "done"
    /\ run < MaxRuns
    /\ run' = run + 1
    /\ pc' = "import"
    /\ idx' = 0
    /\ size' = 0
    /\ filename' = ""
    /\ ResetLocals
    /\ exc' = NoExc
    /\ out' = <<>>
    /\ fsLog' = <<>>
    /\ fontFailed' = FALSE
    /\ prevFiles' = files
    /\ prevOk' = (exc = NoExc)
    /\ UNCHANGED <<dirExists, files, glyphBox>>

Next ==
    \/ Import
    \/ Call
    \/ CreateImage
    \/ LoadFont
    \/ Measure
    \/ DrawText
    \/ MakeDirs
    \/ Save
    \/ Report
    \/ Banner
    \/ Handle
    \/ Rerun

Spec == Init /\ [][Next]_vars

-----------------------------------------------------------------------------
(* create_icon on its own, for any size *)

DriverSizes == {Calls[i][1] : i \in 1..Len(Calls)}

SizeInputs == (1..MaxSize) \cup DriverSizes

InitIcon ==
    /\ pc = "new_image"
    /\ run = 1
    /\ idx = 1
    /\ size \in SizeInputs
    /\ filename = "icon16.png"
    /\ img = NoImg
    /\ font_size = 0
    /\ font = NoFont
    /\ text_width = 0
    /\ text_height = 0
    /\ x = 0
    /\ y = 0
    /\ drawnAt = NoPos
    /\ exc = NoExc
    /\ dirExists \in BOOLEAN
    /\ files = [n \in FileNames |-> NoImg]
    /\ out = <<>>
    /\ fsLog = <<>>
    /\ glyphBox \in Boxes
    /\ fontFailed = FALSE
    /\ prevFiles = [n \in FileNames |-> NoImg]
    /\ prevOk = FALSE

NextIcon ==
    \/ CreateImage
    \/ LoadFont
    \/ Measure
    \/ DrawText
    \/ MakeDirs
    \/ Save
    \/ Report

SpecIcon == InitIcon /\ [][NextIcon]_vars

-----------------------------------------------------------------------------
(* Vocabulary of the properties *)

\* the required files, in the required order, and their pixel sizes
Order == <<"icon16.png", "icon32.png", "icon48.png", "icon128.png">>

RequiredSize(n) ==
    CASE n = "icon16.png" -> 16
      [] n = "icon32.png" -> 32
      [] n = "icon48.png" -> 48
      [] n = "icon128.png" -> 128

Icon(n) == [mode |-> "RGB", width |-> RequiredSize(n), height |-> RequiredSize(n)]

Saves == SelectSeq(fsLog, LAMBDA e : e[1] = "save")

SavedNames == [i \in 1..Len(Saves) |-> Saves[i][2]]

Written == {SavedNames[i] : i \in 1..Len(SavedNames)}

Kinds == {out[i][1] : i \in 1..Len(out)}

Emitted(l) == \E i \in 1..Len(out) : out[i] = l

SuccessLines == SelectSeq(out, LAMBDA l : l[1] = "created")

InCreateIcon ==
    pc \in {"new_image", "load_font", "measure", "draw_text", "makedirs", "save", "print"}

Placed == pc \in {"draw_text", "makedirs", "save", "print"}

Succeeded == pc = "done" /\ exc = NoExc

ImportFailed == exc.type = "ImportError" /\ exc.origin = "import"

RuntimeFailed == exc.type = "Exception" /\ exc.origin # "import" /\ pc = "done"

-----------------------------------------------------------------------------
(* Properties *)

\* C1: after a run with the imaging library present and no failing step, the
\* run has written exactly icon16.png, icon32.png, icon48.png and icon128.png,
\* each an RGB bitmap of the square size in its name; create_icon is always
\* called with the size its file name carries.
C1_FourIconsOfMatchingSize ==
    /\ InCreateIcon => size = RequiredSize(filename)
    /\ Succeeded =>
         /\ Written = FileNames
         /\ Len(Saves) = 4
         /\ \A n \in FileNames : files[n] = Icon(n)

C1_Witness ==
    /\ Succeeded
    /\ run = 1
    /\ files["icon128.png"].width = 128
    /\ files["icon16.png"].height = 16

\* C2: when the PIL import fails, the run writes no file, calls create_icon
\* never, creates no directory, prints the missing-library message with the
\* four manual steps, and prints neither a success line nor the banner.
C2_ImportFailureWritesNothing ==
    ImportFailed =>
        /\ idx = 0
        /\ fsLog = <<>>
        /\ files = prevFiles
        /\ "created" \notin Kinds
        /\ "all_created" \notin Kinds
        /\ pc = "done" =>
             /\ "pil_not_found" \in Kinds
             /\ \A k \in 1..4 : Emitted(Line("step", "", k, ""))

C2_Witness ==
    /\ ImportFailed
    /\ pc = "done"
    /\ Len(out) = 7

\* C3: when a non-import exception is raised in the k-th call after k-1
\* calls succeeded, the run ends with exactly the first k-1 files written,
\* once each and intact, the other files untouched, an error line carrying
\* the exception's message, no later call and no banner.
C3_PartialFailureKeepsPrefix ==
    RuntimeFailed =>
        /\ idx \in 1..4
        /\ SavedNames = SubSeq(Order, 1, idx - 1)
        /\ \A j \in 1..(idx - 1) : files[Order[j]] = Icon(Order[j])
        /\ \A j \in idx..4 : files[Order[j]] = prevFiles[Order[j]]
        /\ Len(SuccessLines) = idx - 1
        /\ Emitted(Line("error", "", 0, exc.msg))
        /\ exc.msg # ""
        /\ "all_created" \notin Kinds
        /\ "pil_not_found" \notin Kinds

C3_Witness ==
    /\ RuntimeFailed
    /\ idx = 3
    /\ exc.origin = "img.save"
    /\ SavedNames = <<"icon16.png", "icon32.png">>

\* C4: the missing-library message is a failure detected up front, never a
\* per-icon failure: no run that has written an icon prints it, whatever is
\* raised inside create_icon afterwards.
C4_MissingMessageOnlyUpFront ==
    "pil_not_found" \in Kinds => Saves = <<>>

\* C5: the label is drawn at (floor((S - W) / 2), floor((S - H) / 2)),
\* unclamped, where W and H are the extents of the measured bounding box when
\* a font was obtained, and F div 2 and F with F = floor(0.6 * S) otherwise.
C5_LabelDrawnAtFloorCentre ==
    drawnAt[1] = "at" =>
        /\ IF font.present
           THEN /\ text_width = glyphBox[3] - glyphBox[1]
                /\ text_height = glyphBox[4] - glyphBox[2]
           ELSE \E F \in 0..size :
                /\ 10 * F <= 6 * size
                /\ 6 * size < 10 * F + 10
                /\ text_height = F
                /\ 2 * text_width <= F
                /\ F <= 2 * text_width + 1
        /\ 2 * drawnAt[2] <= size - text_width
        /\ size - text_width <= 2 * drawnAt[2] + 1
        /\ 2 * drawnAt[3] <= size - text_height
        /\ size - text_height <= 2 * drawnAt[3] + 1

C5_Witness ==
    /\ drawnAt[1] = "at"
    /\ font.present
    /\ drawnAt[2] < 0
    /\ drawnAt[3] > 0

\* C6: the files are written in the order 16, 32, 48, 128, once each, and a
\* call begins only when every earlier call has saved its file and printed
\* its success line.
C6_StrictSequence ==
    /\ SavedNames = SubSeq(Order, 1, Len(SavedNames))
    /\ InCreateIcon =>
         /\ Len(Saves) = (IF pc = "print" THEN idx ELSE idx - 1)
         /\ Len(SuccessLines) = idx - 1
         /\ Len(out) = idx - 1
    /\ pc = "call" => Len(Saves) = idx /\ Len(SuccessLines) = idx

C6_Witness ==
    /\ pc = "new_image"
    /\ idx = 4
    /\ SavedNames = <<"icon16.png", "icon32.png", "icon48.png">>

\* C7: a successful run that follows a successful run leaves the same four
\* files with the same dimensions, writes just those four and creates
\* nothing else; no later run fails because the directory already exists.
C7_SecondRunOverwritesInPlace ==
    /\ run >= 2 => exc.origin # "FileExistsError"
    /\ (run >= 2 /\ prevOk /\ Succeeded) =>
         /\ files = prevFiles
         /\ SavedNames = Order
         /\ fsLog = Saves

C7_Witness ==
    /\ run = 2
    /\ prevOk
    /\ Succeeded
    /\ files["icon48.png"] = prevFiles["icon48.png"]
    /\ prevFiles["icon48.png"].width = 48

\* C8: when a font is obtained it was requested at the computed font size,
\* 60% of the icon size rounded down.
C8_FontRequestedAtSixtyPercent ==
    (InCreateIcon /\ font.present) =>
        /\ font.requested = font_size
        /\ 10 * font.requested <= 6 * size
        /\ 6 * size < 10 * font.requested + 10

\* C9: an error raised by the font load never leaves create_icon: the call
\* goes on without a font, places the label by the estimate, and can finish
\* with the file saved and the success line printed.
C9_FontFailureIsAbsorbed ==
    fontFailed =>
        /\ exc.origin \notin {"load_default", "textbbox"}
        /\ pc # "load_font"
        /\ InCreateIcon => font = NoFont
        /\ Placed =>
             /\ 2 * text_width <= font_size
             /\ font_size <= 2 * text_width + 1
             /\ text_height = font_size
        /\ pc = "call" =>
             /\ files[filename] = Icon(filename)
             /\ out[Len(out)] = Line("created", filename, size, "")

C9_Witness ==
    /\ fontFailed
    /\ pc = "call"
    /\ idx = 2
    /\ files["icon32.png"].width = 32

\* C10: the label is centred up to one pixel toward the top-left: the right
\* margin exceeds the left, and the bottom the top, by 0 or 1, and by 1
\* exactly when S - W (S - H) is odd; this includes labels larger than S.
C10_CentredWithinOnePixel ==
    Placed =>
        LET dx == (size - text_width - x) - x
            dy == (size - text_height - y) - y
        IN  /\ dx \in {0, 1}
            /\ dy \in {0, 1}
            /\ dx = 1 <=> (size - text_width) % 2 = 1
            /\ dy = 1 <=> (size - text_height) % 2 = 1

C10_Witness ==
    /\ Placed
    /\ text_width > size
    /\ (size - text_width) % 2 = 1
    /\ text_height < size
    /\ x < 0

====
